---- MODULE Spec2Model ----
(***************************************************************************)
(* The research-agent workflow: the LangGraph state graph built by         *)
(* build_graph (src/main.py), its six nodes (src/agents.py), the state     *)
(* schema with its reducers (src/state.py) and the websocket handler that  *)
(* drives one run per connection and streams its progress (src/server.py). *)
(*                                                                         *)
(* A Python dict is a function whose DOMAIN is the set of keys present.    *)
(* Python's None is the string None below; a list is a sequence.           *)
(***************************************************************************)
EXTENDS Integers, Sequences, FiniteSets, TLC

\* ------------------------------------------------------------- bounds
MaxPlan == 4        \* longest plan the producer returns
MaxResults == 3     \* most documents one provider search returns
MaxRuns == 2        \* connections served, one after the other
ConcMaxPlan == 1    \* longest plan while connections are served interleaved

\* ---------------------------------------------------- program constants
PassScore == 70         \* critique_condition: score > 70
MaxRetries == 3         \* critique_condition: count > 3
KeepResults == 2        \* researcher_node: results[:2]
RecursionLimit == 25    \* workflow.stream(initial_state): no config, the graph's default

Runs == 1 .. MaxRuns
Topics == {"X"}
None == "<None>"
NoReport == "No report content found."
NoReportGenerated == "No report generated."

\* The quality scores the producer hands back: the two sides of the pass mark.
Scores == {70, 71}

\* The text the producer writes on the k-th writer call: empty, or a text of its own.
DraftTexts(k) == {"", <<"D1", "D2", "D3", "D4", "D5", "D6", "D7", "D8">>[k]}

Min(a, b) == IF a < b THEN a ELSE b

\* ------------------------------------------------------------ dicts
\* state.get(key, default)
Get(d, k, default) == IF k \in DOMAIN d THEN d[k] ELSE default

\* {**state, key: value, ...}
Spread(state, upd) ==
    [k \in DOMAIN state \cup DOMAIN upd |->
        IF k \in DOMAIN upd THEN upd[k] ELSE state[k]]

\* Python truthiness of a str-or-None value
Truthy(v) == v # None /\ v # ""

Log(msg, a, b) == [msg |-> msg, a |-> a, b |-> b]

\* ------------------------------------------------------ state schema
\* AgentState: the keys annotated with operator.add are merged by concatenation.
AddReduced == {"research_data", "logs"}

\* (mutant) the reducer overwrites instead of concatenating
add_overwrite(old, new) == new

\* The reducer of an Annotated[List, operator.add] key.
add(old, new) == old \o new

\* The graph's merge of a node's returned dict into the state: a key the node
\* returned is written through its reducer (operator.add) or overwritten.
Merge(state, upd) ==
    [k \in DOMAIN state \cup DOMAIN upd |->
        IF k \notin DOMAIN upd THEN state[k]
        ELSE IF k \in AddReduced /\ k \in DOMAIN state THEN add(state[k], upd[k])
        ELSE upd[k]]

\* The channels before the input is written: the operator.add keys start as list().
EmptyChannels == [research_data |-> <<>>, logs |-> <<>>]

\* initial_state of websocket_endpoint
initial_state(topic) ==
    [topic |-> topic, plan |-> <<>>, research_data |-> <<>>, draft |-> "",
     critique_count |-> 0, critique_score |-> 0, memory_hit |-> FALSE,
     final_report |-> "", current_query_index |-> 0]

\* ------------------------------------------------- capabilities (tools)
\* A row of the memory table, or no row. content is a dict (with or without a
\* report key) or a plain text.
NoRow == [found |-> FALSE, isdict |-> FALSE, hasreport |-> FALSE, text |-> ""]
DictRow(t) == [found |-> TRUE, isdict |-> TRUE, hasreport |-> TRUE, text |-> t]
TextRow(t) == [found |-> TRUE, isdict |-> FALSE, hasreport |-> FALSE, text |-> t]
BareDictRow == [found |-> TRUE, isdict |-> TRUE, hasreport |-> FALSE, text |-> ""]

\* What the table may hold for a topic before the first run.
InitRows == {NoRow, DictRow("cached"), TextRow("cached"), BareDictRow}

\* tools.check_memory(topic): the row stored for the topic, if any.
ToolsCheckMemory(store, topic) == store[topic]

\* tools.save_memory(topic, content): the row for the topic now holds the report.
ToolsSaveMemory(store, topic, content) == [store EXCEPT ![topic] = DictRow(content)]

\* The plan of n queries the producer returns: SearchQuery(query, rationale).
PlanOf(n) == [i \in 1 .. n |-> [query |-> i, rationale |-> i]]

\* tools.search_tavily(query) returning k documents.
SearchResults(q, k) == [j \in 1 .. k |-> [url |-> <<q, j>>, content |-> <<q, j>>]]

\* ------------------------------------------------------------- nodes
\* Each node is the dict it returns, given the state it reads and what the
\* capability it calls handed back.

\* (mutant) the report is read from the wrong key of the cached content
check_memory_node_wrong_key(state, existing_data) ==
    IF existing_data.found
    THEN Spread(state,
            [memory_hit |-> TRUE,
             final_report |-> IF existing_data.isdict THEN NoReport ELSE existing_data.text,
             logs |-> <<Log("Memory Hit", 0, 0)>>])
    ELSE Spread(state,
            [memory_hit |-> FALSE,
             logs |-> <<Log("Checking Memory", 0, 0), Log("No Memory Found", 0, 0)>>])

check_memory_node(state, existing_data) ==
    IF existing_data.found
    THEN Spread(state,
            [memory_hit |-> TRUE,
             final_report |->
                IF existing_data.isdict
                THEN (IF existing_data.hasreport THEN existing_data.text ELSE NoReport)
                ELSE existing_data.text,
             logs |-> <<Log("Memory Hit", 0, 0)>>])
    ELSE Spread(state,
            [memory_hit |-> FALSE,
             logs |-> <<Log("Checking Memory", 0, 0), Log("No Memory Found", 0, 0)>>])

planner_node(state, queries) ==
    Spread(state,
        [plan |-> queries, research_data |-> <<>>,
         logs |-> <<Log("Planning Research", 0, 0), Log("Generated", Len(queries), 0)>>,
         current_query_index |-> 0])

\* The branch of researcher_node that returns without searching.
ResearcherNoOp(state) ==
    Get(state, "current_query_index", 0) >= Len(state["plan"])

researcher_node(state, results) ==
    LET queries == state["plan"]
        current_index == Get(state, "current_query_index", 0)
    IN  IF current_index >= Len(queries)
        THEN [logs |-> <<Log("All queries completed.", 0, 0)>>]
        ELSE LET q == queries[current_index + 1]
                 kept == SubSeq(results, 1, Min(KeepResults, Len(results)))
                 new_data == [j \in 1 .. Len(kept) |->
                                [source |-> kept[j].url, content |-> kept[j].content,
                                 query |-> q.query]]
             IN  [research_data |-> new_data,
                  logs |-> <<Log("Researching Query", current_index + 1, Len(queries))>>,
                  current_query_index |-> current_index + 1]

\* (mutant) the writer publishes its draft as the final report
writer_node_sets_report(state, content) ==
    Spread(state,
        [draft |-> content, final_report |-> content,
         logs |-> <<Log("Writing Draft", 0, 0), Log("Draft generated.", 0, 0)>>])

writer_node(state, content) ==
    Spread(state,
        [draft |-> content,
         logs |-> <<Log("Writing Draft", 0, 0), Log("Draft generated.", 0, 0)>>])

\* (mutant) the critique hands back a state whose plan is cleared
critique_node_clears_plan(state, score, critique) ==
    LET count == Get(state, "critique_count", 0) + 1
    IN  Spread(state,
            [critique_score |-> score, critique_feedback |-> critique,
             critique_count |-> count, plan |-> <<>>,
             logs |-> <<Log("Critiquing Draft", 0, 0), Log("Critique Score", score, 100)>>,
             current_query_index |-> 0])

critique_node(state, score, critique) ==
    LET count == Get(state, "critique_count", 0) + 1
    IN  Spread(state,
            [critique_score |-> score, critique_feedback |-> critique,
             critique_count |-> count,
             logs |-> <<Log("Critiquing Draft", 0, 0), Log("Critique Score", score, 100)>>,
             current_query_index |-> 0])

save_memory_node(state) ==
    LET final_content == state["draft"]
    IN  Spread(state,
            [final_report |-> final_content,
             logs |-> <<Log("Saving to Memory", 0, 0), Log("Report saved", 0, 0)>>])

\* ------------------------------------------------------------- edges
\* (mutant) a memory hit does not end the run
check_memory_condition_always_continue(state) == "continue"

check_memory_condition(state) ==
    IF Get(state, "memory_hit", FALSE) THEN "end" ELSE "continue"

\* (mutant) the loop test is off by one: the last query is skipped
research_condition_off_by_one(state) ==
    IF Get(state, "current_query_index", 0) + 1 < Len(Get(state, "plan", <<>>))
    THEN "continue" ELSE "done"

research_condition(state) ==
    IF Get(state, "current_query_index", 0) < Len(Get(state, "plan", <<>>))
    THEN "continue" ELSE "done"

\* (mutant) one more retry is allowed
critique_condition_extra_retry(state) ==
    LET score == Get(state, "critique_score", 0)
        count == Get(state, "critique_count", 0)
    IN  IF score > PassScore \/ count > MaxRetries + 1 THEN "good" ELSE "retry"

\* (mutant) a score at the pass mark passes
critique_condition_meets(state) ==
    LET score == Get(state, "critique_score", 0)
        count == Get(state, "critique_count", 0)
    IN  IF score >= PassScore \/ count > MaxRetries THEN "good" ELSE "retry"

critique_condition(state) ==
    LET score == Get(state, "critique_score", 0)
        count == Get(state, "critique_count", 0)
    IN  IF score > PassScore \/ count > MaxRetries THEN "good" ELSE "retry"

\* build_graph: the node that runs after `node`, decided on the merged state.
NextNode(node, state) ==
    CASE node = "check_memory" ->
            (IF check_memory_condition(state) = "end" THEN "END" ELSE "planner")
      [] node = "planner" -> "researcher"
      [] node = "researcher" ->
            (IF research_condition(state) = "continue" THEN "researcher" ELSE "writer")
      [] node = "writer" -> "critique"
      [] node = "critique" ->
            (IF critique_condition(state) = "good" THEN "save_memory" ELSE "researcher")
      [] node = "save_memory" -> "END"

Nodes == {"check_memory", "planner", "researcher", "writer", "critique", "save_memory"}

\* ------------------------------------------------------------ server
\* The update record websocket_endpoint sends for one node's returned dict.
UpdateRecord(node_name, state_update) ==
    [type |-> "update", node |-> node_name,
     logs |-> Get(state_update, "logs", <<>>),
     sources |-> IF "research_data" \in DOMAIN state_update
                 THEN [i \in 1 .. Len(state_update["research_data"]) |->
                          state_update["research_data"][i].source]
                 ELSE <<>>,
     plan |-> IF "plan" \in DOMAIN state_update
              THEN <<[i \in 1 .. Len(state_update["plan"]) |-> state_update["plan"][i].query]>>
              ELSE <<>>,
     draft |-> IF "draft" \in DOMAIN state_update THEN state_update["draft"] ELSE None]

CompleteRecord(report) == [type |-> "complete", report |-> report]
ErrorRecord(message) == [type |-> "error", message |-> message]

\* (mutant) the report of an update is captured whether or not it is empty
CaptureReport_unchecked(final_report, state_update) ==
    IF "final_report" \in DOMAIN state_update
    THEN state_update["final_report"]
    ELSE final_report

\* The handler's final_report local after one more update.
CaptureReport(final_report, state_update) ==
    IF "final_report" \in DOMAIN state_update /\ Truthy(state_update["final_report"])
    THEN state_update["final_report"]
    ELSE final_report

VARIABLES
    pc,         \* per run: where the handler is (idle, the node about to run, END, done, closed)
    st,         \* per run: the graph's state (AgentState)
    steps,      \* per run: supersteps the graph has executed
    report,     \* per run: the handler's final_report local
    stream,     \* per run: the records sent on the websocket, in order
    invoked,    \* per run: the nodes invoked so far, in order (history)
    calls,      \* per run: capability calls made (history)
    outcome,    \* per run: what the run ended with, kept after the handler returned (history)
    store,      \* the memory table shared by all runs: topic -> row
    hits        \* how many documents the search provider has for a query

vars == <<pc, st, steps, report, stream, invoked, calls, outcome, store, hits>>

NoCalls == [producer |-> 0, provider |-> 0, store_get |-> 0, store_put |-> 0]
NoState == Merge(EmptyChannels, initial_state(""))
NoOutcome ==
    [type |-> "none", report |-> None, final_report |-> None, topic |-> None,
     persisted |-> FALSE]

\* What a request may carry as its topic: a topic, the empty text, or none at all.
Requests == Topics \cup {"", None}

Init ==
    /\ pc = [r \in Runs |-> "idle"]
    /\ st = [r \in Runs |-> NoState]
    /\ steps = [r \in Runs |-> 0]
    /\ report = [r \in Runs |-> NoReportGenerated]
    /\ stream = [r \in Runs |-> <<>>]
    /\ invoked = [r \in Runs |-> <<>>]
    /\ calls = [r \in Runs |-> NoCalls]
    /\ outcome = [r \in Runs |-> NoOutcome]
    /\ store \in [Topics -> InitRows]
    /\ hits \in 0 .. MaxResults

Count(seq, x) == Cardinality({i \in 1 .. Len(seq) : seq[i] = x})

\* (mutant) the handler sends the update record of a step twice
RunNode_sends_twice(r, node, upd) ==
    LET merged == Merge(st[r], upd)
    IN  /\ st' = [st EXCEPT ![r] = merged]
        /\ pc' = [pc EXCEPT ![r] = NextNode(node, merged)]
        /\ steps' = [steps EXCEPT ![r] = @ + 1]
        /\ report' = [report EXCEPT ![r] = CaptureReport(@, upd)]
        /\ stream' = [stream EXCEPT ![r] =
                         Append(Append(@, UpdateRecord(node, upd)), UpdateRecord(node, upd))]
        /\ invoked' = [invoked EXCEPT ![r] = Append(@, node)]

\* (mutant) the graph's state is one object shared by every connection
RunNode_shared_state(r, node, upd) ==
    LET merged == Merge(st[r], upd)
    IN  /\ st' = [q \in Runs |-> IF pc[q] \in {"idle", "closed"} THEN st[q] ELSE merged]
        /\ pc' = [pc EXCEPT ![r] = NextNode(node, merged)]
        /\ steps' = [steps EXCEPT ![r] = @ + 1]
        /\ report' = [report EXCEPT ![r] = CaptureReport(@, upd)]
        /\ stream' = [stream EXCEPT ![r] = Append(@, UpdateRecord(node, upd))]
        /\ invoked' = [invoked EXCEPT ![r] = Append(@, node)]

\* workflow.stream: one superstep. The node's returned dict is merged into the
\* state, the edge out of the node is decided on the merged state, and the
\* handler sends the update record for the returned dict.
RunNode(r, node, upd) ==
    LET merged == Merge(st[r], upd)
    IN  /\ st' = [st EXCEPT ![r] = merged]
        /\ pc' = [pc EXCEPT ![r] = NextNode(node, merged)]
        /\ steps' = [steps EXCEPT ![r] = @ + 1]
        /\ report' = [report EXCEPT ![r] = CaptureReport(@, upd)]
        /\ stream' = [stream EXCEPT ![r] = Append(@, UpdateRecord(node, upd))]
        /\ invoked' = [invoked EXCEPT ![r] = Append(@, node)]

\* (mutant) the error is reported but the run goes on at the failing node
Abort_keeps_running(r, node, message) ==
    /\ pc' = pc
    /\ stream' = [stream EXCEPT ![r] = Append(@, ErrorRecord(message))]
    /\ invoked' = [invoked EXCEPT ![r] = Append(@, node)]
    /\ UNCHANGED <<st, steps, report>>

\* An exception leaves workflow.stream: the handler's except branch sends one
\* error record and the handler returns.
Abort(r, node, message) ==
    /\ pc' = [pc EXCEPT ![r] = "done"]
    /\ stream' = [stream EXCEPT ![r] = Append(@, ErrorRecord(message))]
    /\ invoked' = [invoked EXCEPT ![r] = Append(@, node)]
    /\ UNCHANGED <<st, steps, report>>

\* The graph runs a node only while the superstep limit is not used up.
CanStep(r, node) == pc[r] = node /\ steps[r] < RecursionLimit

\* (mutant) the topic is not checked
Accept_unchecked(r) ==
    /\ pc[r] = "idle"
    /\ \E topic \in Requests :
          /\ pc' = [pc EXCEPT ![r] = "check_memory"]
          /\ st' = [st EXCEPT ![r] = Merge(EmptyChannels, initial_state(topic))]
          /\ UNCHANGED stream
    /\ UNCHANGED <<steps, report, invoked, calls, outcome, store, hits>>

\* websocket_endpoint up to workflow.stream: the request is read and its topic checked.
Accept(r) ==
    /\ pc[r] = "idle"
    /\ \E topic \in Requests :
          IF ~Truthy(topic)
          THEN /\ pc' = [pc EXCEPT ![r] = "done"]
               /\ stream' = [stream EXCEPT ![r] = Append(@, ErrorRecord("No topic provided"))]
               /\ UNCHANGED st
          ELSE /\ pc' = [pc EXCEPT ![r] = "check_memory"]
               /\ st' = [st EXCEPT ![r] = Merge(EmptyChannels, initial_state(topic))]
               /\ UNCHANGED stream
    /\ UNCHANGED <<steps, report, invoked, calls, outcome, store, hits>>

\* Connections are served one after the other: a request is read once the
\* handlers of the earlier connections have returned.
Receive(r) ==
    /\ \A q \in Runs : q < r => pc[q] = "closed"
    /\ Accept(r)

CheckMemory(r) ==
    /\ CanStep(r, "check_memory")
    /\ RunNode(r, "check_memory",
               check_memory_node(st[r], ToolsCheckMemory(store, st[r]["topic"])))
    /\ calls' = [calls EXCEPT ![r].store_get = @ + 1]
    /\ UNCHANGED <<outcome, store, hits>>

Planner(r) ==
    /\ CanStep(r, "planner")
    /\ \E n \in 0 .. MaxPlan : RunNode(r, "planner", planner_node(st[r], PlanOf(n)))
    /\ calls' = [calls EXCEPT ![r].producer = @ + 1]
    /\ UNCHANGED <<outcome, store, hits>>

Researcher(r) ==
    /\ CanStep(r, "researcher")
    /\ IF ResearcherNoOp(st[r])
       THEN /\ RunNode(r, "researcher", researcher_node(st[r], <<>>))
            /\ UNCHANGED calls
       ELSE LET q == st[r]["plan"][st[r]["current_query_index"] + 1]
            IN  /\ RunNode(r, "researcher",
                           researcher_node(st[r], SearchResults(q.query, hits)))
                /\ calls' = [calls EXCEPT ![r].provider = @ + 1]
    /\ UNCHANGED <<outcome, store, hits>>

Writer(r) ==
    /\ CanStep(r, "writer")
    /\ \E content \in DraftTexts(Min(Count(invoked[r], "writer") + 1, 8)) :
          RunNode(r, "writer", writer_node(st[r], content))
    /\ calls' = [calls EXCEPT ![r].producer = @ + 1]
    /\ UNCHANGED <<outcome, store, hits>>

Critique(r) ==
    /\ CanStep(r, "critique")
    /\ \E score \in Scores : RunNode(r, "critique", critique_node(st[r], score, "feedback"))
    /\ calls' = [calls EXCEPT ![r].producer = @ + 1]
    /\ UNCHANGED <<outcome, hits, store>>

SaveMemory(r) ==
    /\ CanStep(r, "save_memory")
    /\ store' = ToolsSaveMemory(store, st[r]["topic"], st[r]["draft"])
    /\ RunNode(r, "save_memory", save_memory_node(st[r]))
    /\ calls' = [calls EXCEPT ![r].store_put = @ + 1]
    /\ UNCHANGED <<outcome, hits>>

\* The capability a node calls raises: the producer (planner, writer, critique),
\* the provider (researcher, when it searches) or the store's write (save_memory).
StepFails(r) ==
    /\ steps[r] < RecursionLimit
    /\ \/ /\ pc[r] \in {"planner", "writer", "critique"}
          /\ Abort(r, pc[r], "ProducerError")
          /\ calls' = [calls EXCEPT ![r].producer = @ + 1]
       \/ /\ pc[r] = "researcher" /\ ~ResearcherNoOp(st[r])
          /\ Abort(r, pc[r], "ProviderError")
          /\ calls' = [calls EXCEPT ![r].provider = @ + 1]
       \/ /\ pc[r] = "save_memory"
          /\ Abort(r, pc[r], "StoreError")
          /\ calls' = [calls EXCEPT ![r].store_put = @ + 1]
    /\ UNCHANGED <<outcome, store, hits>>

\* The graph has work left when the superstep limit is used up: workflow.stream raises.
RecursionError(r) ==
    /\ pc[r] \in Nodes
    /\ steps[r] >= RecursionLimit
    /\ pc' = [pc EXCEPT ![r] = "done"]
    /\ stream' = [stream EXCEPT ![r] = Append(@, ErrorRecord("GraphRecursionError"))]
    /\ UNCHANGED <<st, steps, report, invoked, calls, outcome, store, hits>>

\* The graph reached END: the handler sends the complete record and returns.
Complete(r) ==
    /\ pc[r] = "END"
    /\ pc' = [pc EXCEPT ![r] = "done"]
    /\ stream' = [stream EXCEPT ![r] = Append(@, CompleteRecord(report[r]))]
    /\ UNCHANGED <<st, steps, report, invoked, calls, outcome, store, hits>>

\* The handler has returned: the run's state and locals are gone, the client
\* keeps the record the stream ended with.
Close(r) ==
    /\ pc[r] = "done"
    /\ pc' = [pc EXCEPT ![r] = "closed"]
    /\ outcome' = [outcome EXCEPT ![r] =
          LET last == stream[r][Len(stream[r])]
          IN  [type |-> last.type,
               report |-> IF last.type = "complete" THEN last.report ELSE None,
               final_report |-> Get(st[r], "final_report", None),
               topic |-> st[r]["topic"],
               persisted |-> \E i \in 1 .. Len(stream[r]) :
                                stream[r][i].type = "update"
                                   /\ stream[r][i].node = "save_memory"]]
    /\ st' = [st EXCEPT ![r] = NoState]
    /\ steps' = [steps EXCEPT ![r] = 0]
    /\ report' = [report EXCEPT ![r] = NoReportGenerated]
    /\ stream' = [stream EXCEPT ![r] = <<>>]
    /\ invoked' = [invoked EXCEPT ![r] = <<>>]
    /\ calls' = [calls EXCEPT ![r] = NoCalls]
    /\ UNCHANGED <<store, hits>>

Next ==
    \E r \in Runs :
        \/ Receive(r)
        \/ CheckMemory(r)
        \/ Planner(r)
        \/ Researcher(r)
        \/ Writer(r)
        \/ Critique(r)
        \/ SaveMemory(r)
        \/ StepFails(r)
        \/ RecursionError(r)
        \/ Complete(r)
        \/ Close(r)

Spec == Init /\ [][Next]_vars

\* What bounds the runs while connections are served interleaved: the plans
\* are short, and the producer approves the draft at the first critique (the
\* rewrite loop is covered by Spec, where the runs follow one another).
ConcBound ==
    \A r \in Runs :
        /\ Len(st[r]["plan"]) <= ConcMaxPlan
        /\ st[r]["critique_count"] > 0 => st[r]["critique_score"] > PassScore

\* The handler is a coroutine per connection: it awaits between the steps of
\* its run (send_text), so the steps of open connections interleave.
NextConc ==
    \E r \in Runs :
        \/ Accept(r)
        \/ CheckMemory(r)
        \/ Planner(r) /\ ConcBound'
        \/ Researcher(r)
        \/ Writer(r)
        \/ Critique(r) /\ ConcBound'
        \/ SaveMemory(r)
        \/ StepFails(r)
        \/ Complete(r)
        \/ Close(r)

\* Interleaved runs start from a table without the topic or with a cached
\* report, and a provider with one document per query.
InitConc ==
    /\ Init
    /\ \A t \in Topics : store[t] \in {NoRow, DictRow("cached")}
    /\ hits = Min(1, MaxResults)

SpecConc == InitConc /\ [][NextConc]_vars

\* ================================================================ claims
Last(seq) == seq[Len(seq)]
IsPrefix(a, b) == Len(a) <= Len(b) /\ SubSeq(b, 1, Len(a)) = a
Repeat(x, n) == [i \in 1 .. n |-> x]

\* The update records of one node in a run's stream, in order.
RecordsOf(r, node) ==
    SelectSeq(stream[r], LAMBDA rec : rec.type = "update" /\ rec.node = node)

\* The scores of the run's critique passes, in order (read off the critique logs).
ScoresOf(r) == [i \in 1 .. Len(RecordsOf(r, "critique")) |-> RecordsOf(r, "critique")[i].logs[2].a]

\* The drafts of the run's writer passes, in order.
DraftsOf(r) == [i \in 1 .. Len(RecordsOf(r, "writer")) |-> RecordsOf(r, "writer")[i].draft]

CapabilityErrors == {"ProducerError", "ProviderError", "StoreError"}

\* The run ended on a capability failure.
CapabilityFailed(r) ==
    /\ stream[r] # <<>>
    /\ Last(stream[r]).type = "error"
    /\ Last(stream[r]).message \in CapabilityErrors

\* The run ended with the complete record.
Completed(r) ==
    /\ pc[r] = "done"
    /\ stream[r] # <<>>
    /\ Last(stream[r]).type = "complete"

\* C1: whenever save_memory is about to run, critique_count is at most 4, and
\* no run invokes critique more than 4 times.
C1_RetryCountAtMostFour ==
    \A r \in Runs :
        /\ pc[r] = "save_memory" => st[r]["critique_count"] <= 4
        /\ Count(invoked[r], "critique") <= 4

\* C1 witness: save_memory is reached after four critique passes.
C1_Witness ==
    \E r \in Runs :
        /\ pc[r] = "save_memory"
        /\ st[r]["critique_count"] = 4
        /\ Count(invoked[r], "critique") = 4

\* C2 (as claimed): researcher is never about to run with
\* current_query_index >= len(plan).
C2_GatherAlwaysInBounds ==
    \A r \in Runs :
        pc[r] = "researcher" =>
            st[r]["current_query_index"] < Len(st[r]["plan"])

\* C3 (as claimed): a run invokes at most 2 + 4*(len(plan)+2) + 1 steps.
C3_StepBound ==
    \A r \in Runs :
        Len(invoked[r]) <= 2 + 4 * (Len(st[r]["plan"]) + 2) + 1

\* C4: once check_memory has set memory_hit, the run has invoked check_memory
\* only, goes to END, and has called neither producer nor provider nor the
\* store's write.
C4_CacheHitShortCircuits ==
    \A r \in Runs :
        st[r]["memory_hit"] =>
            /\ invoked[r] = <<"check_memory">>
            /\ pc[r] \in {"END", "done"}
            /\ calls[r].producer = 0
            /\ calls[r].provider = 0
            /\ calls[r].store_put = 0

\* C4 witness: a run that hit the memory has ended with its complete record.
C4_Witness ==
    \E r \in Runs : st[r]["memory_hit"] /\ Completed(r)

\* C5: within a run no step shortens research_data or changes an item already
\* in it: the old list is a prefix of the new one.
C5_ResearchDataOnlyGrows ==
    [][\A r \in Runs :
          pc'[r] # "closed" =>
             /\ Len(st'[r]["research_data"]) >= Len(st[r]["research_data"])
             /\ IsPrefix(st[r]["research_data"], st'[r]["research_data"])]_vars

\* C5 witness: a retry is gathering again on top of the items of the first pass.
C5_Witness ==
    \E r \in Runs :
        /\ pc[r] = "writer"
        /\ st[r]["critique_count"] >= 1
        /\ Len(st[r]["research_data"]) > 0

\* C6: right after a critique step the next node is save_memory exactly when
\* the merged state has critique_score > 70 or critique_count > 3, and is
\* researcher with current_query_index = 0 otherwise.
C6_CritiqueTransition ==
    \A r \in Runs :
        (pc[r] \in Nodes /\ invoked[r] # <<>> /\ Last(invoked[r]) = "critique") =>
            /\ pc[r] = "save_memory" <=>
                   (st[r]["critique_score"] > 70 \/ st[r]["critique_count"] > 3)
            /\ pc[r] # "save_memory" =>
                   (pc[r] = "researcher" /\ st[r]["current_query_index"] = 0)

\* C6 witness: a critique scored exactly 70 on an early pass and the run retries.
C6_Witness ==
    \E r \in Runs :
        /\ invoked[r] # <<>> /\ Last(invoked[r]) = "critique"
        /\ st[r]["critique_score"] = 70
        /\ st[r]["critique_count"] <= 3
        /\ pc[r] = "researcher"

\* C7 (as claimed): a run whose first three critique passes all scored <= 70
\* and that ended without a capability failure has invoked critique exactly 4
\* times, has critique_count 4, went from the 4th critique to save_memory, and
\* its final_report is the 4th draft.
C7_FourthPassPersists ==
    \A r \in Runs :
        (/\ pc[r] = "done"
         /\ ~CapabilityFailed(r)
         /\ Len(ScoresOf(r)) >= 3
         /\ \A i \in 1 .. 3 : ScoresOf(r)[i] <= 70) =>
            /\ Count(invoked[r], "critique") = 4
            /\ st[r]["critique_count"] = 4
            /\ Last(invoked[r]) = "save_memory"
            /\ Len(DraftsOf(r)) = 4
            /\ st[r]["final_report"] = DraftsOf(r)[4]

\* C8: a completed run that missed the memory, planned n >= 1 queries and
\* scored above 70 on its first critique invoked exactly check_memory, planner,
\* researcher x n, writer, critique, save_memory, ends with critique_count 1
\* and final_report equal to the draft.
C8_HappyPath ==
    \A r \in Runs :
        (/\ Completed(r)
         /\ ~st[r]["memory_hit"]
         /\ Len(st[r]["plan"]) >= 1
         /\ Len(ScoresOf(r)) >= 1
         /\ ScoresOf(r)[1] > 70) =>
            /\ invoked[r] = <<"check_memory", "planner">>
                              \o Repeat("researcher", Len(st[r]["plan"]))
                              \o <<"writer", "critique", "save_memory">>
            /\ Len(invoked[r]) = Len(st[r]["plan"]) + 5
            /\ st[r]["critique_count"] = 1
            /\ st[r]["final_report"] = st[r]["draft"]
            /\ st[r]["final_report"] = DraftsOf(r)[1]

\* C8 witness: scenario A, three queries and a passing first critique, 8 steps.
C8_Witness ==
    \E r \in Runs :
        /\ Completed(r)
        /\ Len(st[r]["plan"]) = 3
        /\ Len(invoked[r]) = 8
        /\ st[r]["critique_count"] = 1
        /\ st[r]["critique_score"] > 70

\* C9 (as claimed): in a run whose plan has zero queries none of researcher,
\* writer, critique, save_memory is invoked and nothing is written to the store.
C9_EmptyPlanAborts ==
    \A r \in Runs :
        ("planner" \in {invoked[r][i] : i \in 1 .. Len(invoked[r])}
            /\ Len(st[r]["plan"]) = 0) =>
            /\ \A i \in 1 .. Len(invoked[r]) :
                  invoked[r][i] \notin {"researcher", "writer", "critique", "save_memory"}
            /\ calls[r].store_put = 0

\* C10: an error record is the last record of its stream and the handler has
\* returned; when a capability failed, every record before it is the update of
\* a step that completed, in invocation order, the failing step is invoked
\* once and is the last invoked, and there is no complete record.
C10_FailureAborts ==
    \A r \in Runs :
        /\ \A i \in 1 .. Len(stream[r]) :
              stream[r][i].type = "error" => (i = Len(stream[r]) /\ pc[r] = "done")
        /\ CapabilityFailed(r) =>
              /\ Len(stream[r]) = Len(invoked[r])
              /\ \A i \in 1 .. Len(stream[r]) - 1 :
                    /\ stream[r][i].type = "update"
                    /\ stream[r][i].node = invoked[r][i]
              /\ steps[r] = Len(invoked[r]) - 1

\* C10 witness: scenario D, the provider fails on the second search.
C10_Witness ==
    \E r \in Runs :
        /\ pc[r] = "done"
        /\ invoked[r] = <<"check_memory", "planner", "researcher", "researcher">>
        /\ Len(stream[r]) = 4
        /\ stream[r][1].node = "check_memory"
        /\ stream[r][2].node = "planner"
        /\ stream[r][3].node = "researcher"
        /\ stream[r][4] = ErrorRecord("ProviderError")

\* The update records of a run's stream, in order.
UpdatesOf(r) == SelectSeq(stream[r], LAMBDA rec : rec.type = "update")

\* C11: the stream holds one update record per completed step, in the order
\* the steps completed, every record that is not an update is the last one and
\* the handler has returned after it, a returned handler has sent a terminal
\* record, and a completed memory-hit run sent the check_memory update and the
\* complete record only.
C11_StreamShape ==
    \A r \in Runs :
        /\ Len(UpdatesOf(r)) = steps[r]
        /\ steps[r] <= Len(invoked[r])
        /\ \A i \in 1 .. Len(UpdatesOf(r)) : UpdatesOf(r)[i].node = invoked[r][i]
        /\ \A i \in 1 .. Len(stream[r]) :
              stream[r][i].type # "update" =>
                 (i = Len(stream[r]) /\ pc[r] = "done"
                    /\ stream[r][i].type \in {"complete", "error"})
        /\ pc[r] = "done" => (stream[r] # <<>> /\ Last(stream[r]).type # "update")
        /\ (Completed(r) /\ st[r]["memory_hit"]) =>
              (Len(stream[r]) = 2 /\ stream[r][1].type = "update"
                 /\ stream[r][1].node = "check_memory")

\* C11 witness: scenario C, a memory hit: one update record, then complete.
C11_Witness ==
    \E r \in Runs :
        /\ Completed(r)
        /\ st[r]["memory_hit"]
        /\ Len(stream[r]) = 2
        /\ stream[r][1].node = "check_memory"

\* C12: when the run before this one persisted its report and this run asks
\* for the same topic, its check_memory hits the memory, its final_report is
\* the final_report of that earlier run, and it calls neither the producer nor
\* the provider.
C12_RerunHitsMemory ==
    \A r \in Runs :
        (/\ r > 1
         /\ outcome[r - 1].persisted
         /\ outcome[r - 1].topic = st[r]["topic"]
         /\ steps[r] >= 1) =>
            /\ st[r]["memory_hit"]
            /\ st[r]["final_report"] = outcome[r - 1].final_report
            /\ invoked[r] = <<"check_memory">>
            /\ calls[r].producer = 0
            /\ calls[r].provider = 0

\* C12 witness: the second run completed on the report the first run persisted.
C12_Witness ==
    \E r \in Runs :
        /\ r > 1
        /\ outcome[r - 1].persisted
        /\ outcome[r - 1].final_report = "D1"
        /\ Completed(r)
        /\ st[r]["memory_hit"]
        /\ st[r]["final_report"] = "D1"

\* Run r completes the step of `node` in this transition.
StepOf(r, node) == pc[r] = node /\ steps'[r] = steps[r] + 1

\* C13 (as claimed): the steps other than researcher leave research_data, its
\* contents and its length, as it was before the step.
C13_OnlyGatherChangesResearchData ==
    [][\A r \in Runs :
          \A node \in Nodes \ {"researcher"} :
             StepOf(r, node) => st'[r]["research_data"] = st[r]["research_data"]]_vars

\* C14 (as claimed): an update record lists sources only for a researcher step,
\* and then only the items that step added, and carries a draft text only for
\* the writer step.
C14_RecordCarriesOnlyChanges ==
    \A r \in Runs :
        \A i \in 1 .. Len(stream[r]) :
            stream[r][i].type = "update" =>
               /\ stream[r][i].node # "researcher" => stream[r][i].sources = <<>>
               /\ stream[r][i].node = "researcher" =>
                     Len(stream[r][i].sources) <= KeepResults
               /\ stream[r][i].node # "writer" => ~Truthy(stream[r][i].draft)

\* The final_report of run r changes in this transition, within the run.
ReportChanges(r) ==
    pc'[r] # "closed" /\ st'[r]["final_report"] # st[r]["final_report"]

\* C15 (as claimed): final_report is given a value by save_memory only.
C15_OnlySaveMemorySetsReport ==
    [][\A r \in Runs : ReportChanges(r) => StepOf(r, "save_memory")]_vars

\* C15 (amended): final_report is given a value at most once in a run, from
\* its initial empty text, and only by save_memory or by check_memory when it
\* hits the memory.
C15_ReportSetOnceByHitOrSave ==
    [][\A r \in Runs :
          ReportChanges(r) =>
             /\ st[r]["final_report"] = ""
             /\ \/ StepOf(r, "save_memory")
                \/ StepOf(r, "check_memory") /\ st'[r]["memory_hit"]]_vars

\* C15 witness: check_memory hit the memory and gave final_report the cached report.
C15_Witness ==
    \E r \in Runs :
        /\ pc[r] = "END"
        /\ invoked[r] = <<"check_memory">>
        /\ st[r]["memory_hit"]
        /\ st[r]["final_report"] = "cached"

\* C16: in a run that missed the memory the planner runs at most once, no
\* other step changes the plan (it is the same after every critique retry),
\* and current_query_index <= len(plan) in every state.
C16_PlanSetOnce ==
    /\ [](\A r \in Runs :
            /\ st[r]["current_query_index"] <= Len(st[r]["plan"])
            /\ Count(invoked[r], "planner") <= 1
            /\ st[r]["memory_hit"] => st[r]["plan"] = <<>>)
    /\ [][\A r \in Runs :
            (pc'[r] # "closed" /\ st'[r]["plan"] # st[r]["plan"]) =>
                (StepOf(r, "planner") /\ Count(invoked[r], "planner") = 0)]_vars

\* C16 witness: a retry has walked the whole plan again and the plan is the
\* one the planner set.
C16_Witness ==
    \E r \in Runs :
        /\ pc[r] = "writer"
        /\ st[r]["critique_count"] = 2
        /\ st[r]["plan"] = PlanOf(3)
        /\ st[r]["current_query_index"] = 3

\* C17 (as claimed): every researcher step raises current_query_index by
\* exactly 1, critique and planner set it to 0, no other step changes it, and
\* it is 0 whenever researcher is entered from a critique retry.
C17_CursorMoves ==
    [][\A r \in Runs :
          /\ StepOf(r, "researcher") =>
                st'[r]["current_query_index"] = st[r]["current_query_index"] + 1
          /\ (StepOf(r, "critique") \/ StepOf(r, "planner")) =>
                st'[r]["current_query_index"] = 0
          /\ (StepOf(r, "check_memory") \/ StepOf(r, "writer") \/ StepOf(r, "save_memory")) =>
                st'[r]["current_query_index"] = st[r]["current_query_index"]
          /\ (StepOf(r, "critique") /\ pc'[r] = "researcher") =>
                st'[r]["current_query_index"] = 0]_vars

\* C18: a request whose topic is empty or missing is answered with the error
\* record alone and the handler returns: no node is invoked, the graph takes
\* no step and no capability is called.
C18_EmptyTopicRejected ==
    \A r \in Runs :
        (pc[r] \notin {"idle", "closed"} /\ ~Truthy(st[r]["topic"])) =>
            /\ pc[r] = "done"
            /\ stream[r] = <<ErrorRecord("No topic provided")>>
            /\ invoked[r] = <<>>
            /\ steps[r] = 0
            /\ calls[r] = NoCalls

\* C18 witness: a request without a topic was answered with the error record.
C18_Witness ==
    \E r \in Runs :
        /\ pc[r] = "done"
        /\ ~Truthy(st[r]["topic"])
        /\ stream[r] = <<ErrorRecord("No topic provided")>>

\* Run r acts in this transition.
Acts(r) ==
    pc'[r] # pc[r] \/ steps'[r] # steps[r] \/ invoked'[r] # invoked[r]

\* C19: with the steps of several runs interleaved, a step of one run leaves
\* the state of every other run (plan, research_data, draft, critique_count,
\* current_query_index, final_report and the rest), its position, its stream
\* and its handler's locals as they were.
C19_RunsDoNotInterfere ==
    [][\A r \in Runs :
          Acts(r) =>
             \A q \in Runs \ {r} :
                /\ st'[q] = st[q]
                /\ pc'[q] = pc[q]
                /\ steps'[q] = steps[q]
                /\ report'[q] = report[q]
                /\ stream'[q] = stream[q]]_vars

\* C19 witness: two runs are open at once; one has persisted its report and
\* the other, still holding its own state, has read that report from the store.
C19_Witness ==
    \E r, q \in Runs :
        /\ r # q
        /\ pc[r] = "END" /\ Last(invoked[r]) = "save_memory"
        /\ st[r]["final_report"] = "D1" /\ st[r]["plan"] = PlanOf(1)
        /\ pc[q] = "END" /\ st[q]["memory_hit"]
        /\ st[q]["final_report"] = "D1" /\ st[q]["plan"] = <<>>

\* C20 (as stated): in every run that ends with a complete record, the record
\* carries the final_report of the final state, whatever the draft or the
\* cached content was, the empty text included.
C20_CompleteCarriesFinalReport ==
    \A r \in Runs :
        Completed(r) => Last(stream[r]).report = st[r]["final_report"]

\* C20 (amended): the complete record carries the final_report of the final
\* state when that is a non-empty text and "No report generated." when it is
\* empty; after a memory miss final_report is the draft that save_memory wrote
\* to the store.
C20_CompleteCarriesReportOrPlaceholder ==
    \A r \in Runs :
        Completed(r) =>
            LET final == st[r]["final_report"]
            IN  /\ Last(stream[r]).report =
                      IF Truthy(final) THEN final ELSE NoReportGenerated
                /\ ~st[r]["memory_hit"] =>
                      /\ final = st[r]["draft"]
                      /\ store[st[r]["topic"]] = DictRow(final)

\* C20 witness: a run persisted an empty draft and ended with a complete
\* record that carries the placeholder.
C20_Witness ==
    \E r \in Runs :
        /\ Completed(r)
        /\ Last(invoked[r]) = "save_memory"
        /\ st[r]["final_report"] = ""
        /\ store[st[r]["topic"]] = DictRow("")
        /\ Last(stream[r]) = CompleteRecord(NoReportGenerated)

====
